---- MODULE Spec2Model ----
(***************************************************************************)
(* A model of the IRC client: the command interpreter (command.rs), the    *)
(* wire codec (protocol.rs), the per-server session task and its event     *)
(* dispatcher (client.rs) and the tab model with the key loop (ui.rs).     *)
(*                                                                         *)
(* Rust strings are TLA+ strings; indices are 1-based here, 0-based in the *)
(* source.  A Rust panic inside a pure function is the result              *)
(* [panic |-> TRUE]; a panic inside a task ends that task.                 *)
(***************************************************************************)
EXTENDS Integers, Sequences, FiniteSets, TLC

(***************************************************************************)
(* Bounds of the model.                                                    *)
(***************************************************************************)
\* events the environment delivers: bursts of keys, inbound lines, ends of
\* stream and transport errors
MaxInputs == 3
\* capacity of each mpsc channel of a session in the model (the source
\* sizes them 100, client.rs:66-70)
ChanCap == 1

(***************************************************************************)
(* String helpers (std::str).                                              *)
(***************************************************************************)
CharAt(s, i) == SubSeq(s, i, i)

\* &s[n..] for n <= len
Skip(s, n) == SubSeq(s, n + 1, Len(s))

StartsWith(s, p) == Len(s) >= Len(p) /\ SubSeq(s, 1, Len(p)) = p

Contains(s, c) == \E i \in 1..Len(s) : CharAt(s, i) = c

\* str::find(c): 1-based position of the first c, 0 when absent
Find(s, c) ==
    IF Contains(s, c)
    THEN CHOOSE i \in 1..Len(s) :
            CharAt(s, i) = c /\ \A j \in 1..(i - 1) : CharAt(s, j) # c
    ELSE 0

IsSpace(c) == c \in {" ", "\t"}

RECURSIVE TrimStart(_)
TrimStart(s) ==
    IF Len(s) > 0 /\ IsSpace(CharAt(s, 1)) THEN TrimStart(Skip(s, 1)) ELSE s

RECURSIVE TrimEnd(_)
TrimEnd(s) ==
    IF Len(s) > 0 /\ IsSpace(CharAt(s, Len(s)))
    THEN TrimEnd(SubSeq(s, 1, Len(s) - 1))
    ELSE s

Trim(s) == TrimEnd(TrimStart(s))

RECURSIVE SplitWs(_, _, _, _)
SplitWs(s, i, cur, acc) ==
    IF i > Len(s)
    THEN IF cur = "" THEN acc ELSE Append(acc, cur)
    ELSE IF IsSpace(CharAt(s, i))
         THEN SplitWs(s, i + 1, "", IF cur = "" THEN acc ELSE Append(acc, cur))
         ELSE SplitWs(s, i + 1, cur \o CharAt(s, i), acc)

\* str::split_whitespace
split_whitespace(s) == SplitWs(s, 1, "", <<>>)

RECURSIVE Join(_, _)
Join(toks, sep) ==
    IF Len(toks) = 0 THEN ""
    ELSE IF Len(toks) = 1 THEN toks[1]
    ELSE toks[1] \o sep \o Join(Tail(toks), sep)

\* {s:?} of a String without characters that need escaping
DebugStr(s) == "\"" \o s \o "\""

(***************************************************************************)
(* command.rs: the command interpreter.                                    *)
(***************************************************************************)
CmdErr(e) == [ok |-> FALSE, err |-> e]
CmdOk(tag, a, b) == [ok |-> TRUE, tag |-> tag, arg |-> a, cmd |-> b]

\* the `/nick <rest>` rule of the command interpreter: ui.rs matches
\* Cmd::Nick(nick), which the command.rs at hand does not declare
make_cmd_nick(rest) == CmdOk("Nick", rest, "")

\* a make_cmd without the checks for an empty argument
make_cmd_lax(cmd, rest) ==
    CASE cmd = "/connect" -> CmdOk("Connect", rest, "")
      [] cmd = "/join" -> CmdOk("Join", rest, "")
      [] cmd = "/quit" -> CmdOk("Quit", rest, "")
      [] cmd = "/nick" -> make_cmd_nick(rest)
      [] OTHER -> CmdOk("Unsupported", rest, cmd)

make_cmd(cmd, rest) ==
    CASE cmd = "/connect" ->
            IF rest # "" THEN CmdOk("Connect", rest, "")
            ELSE CmdErr("No server address provided")
      [] cmd = "/join" ->
            IF rest # "" THEN CmdOk("Join", rest, "")
            ELSE CmdErr("No channel name provided")
      [] cmd = "/quit" -> CmdOk("Quit", rest, "")
      [] cmd = "/nick" -> make_cmd_nick(rest)
      [] OTHER -> CmdOk("Unsupported", rest, cmd)

parse_input(input) ==
    IF ~StartsWith(input, "/")
    THEN CmdOk("Msg", input, "")
    ELSE LET ix == Find(input, " ")
         IN  IF ix # 0
             THEN make_cmd(SubSeq(input, 1, ix - 1), Trim(Skip(input, ix)))
             ELSE make_cmd(input, "")

(***************************************************************************)
(* protocol.rs: the wire codec.                                            *)
(***************************************************************************)
Panic == [panic |-> TRUE]

\* params[k] of the source (0-based k) exists
Has(params, k) == Len(params) > k
\* params[k] of the source (0-based k)
At(params, k) == params[k + 1]
\* params[k][1..] of the source is in range
HasTail(params, k) == Has(params, k) /\ Len(At(params, k)) >= 1
\* params[k..] of the source (0-based k), for k <= len
From(params, k) == SubSeq(params, k + 1, Len(params))

Decoded(command, params) == [panic |-> FALSE, command |-> command, params |-> params]

\* the arms `let msg = params[1][1..].to_string()` of parse_cmd
MsgAt1(tag, params) ==
    IF HasTail(params, 1)
    THEN Decoded([tag |-> tag, msg |-> Skip(At(params, 1), 1)], <<>>)
    ELSE Panic

\* the arms `let msg = params[1..].join(" ")` of parse_cmd
MsgJoin1(tag, params) ==
    IF Len(params) >= 1
    THEN Decoded([tag |-> tag, msg |-> Join(From(params, 1), " ")], <<>>)
    ELSE Panic

\* the NICK and ERROR rules of the codec: client.rs matches
\* ServCmd::Nick { nick } and ServCmd::Error { msg }, which the protocol.rs
\* at hand does not declare; the field is the trailing parameter without
\* its marker, as in the arms of the other commands
parse_cmd_nick(params) ==
    IF HasTail(params, 0)
    THEN Decoded([tag |-> "Nick", nick |-> Skip(At(params, 0), 1)], <<>>)
    ELSE Panic

parse_cmd_error(params) ==
    IF HasTail(params, 0)
    THEN Decoded([tag |-> "Error", msg |-> Skip(At(params, 0), 1)], <<>>)
    ELSE Panic

parse_cmd(cmd, params) ==
    CASE cmd = "JOIN" ->
            IF HasTail(params, 0)
            THEN Decoded([tag |-> "Join", chan |-> Skip(At(params, 0), 1)], <<>>)
            ELSE Panic
      [] cmd = "PRIVMSG" ->
            IF Has(params, 0) /\ HasTail(params, 1)
            THEN Decoded([tag |-> "PrivMsg",
                          target |-> IF StartsWith(At(params, 0), "#")
                                     THEN [kind |-> "Chan", name |-> At(params, 0)]
                                     ELSE [kind |-> "User", name |-> At(params, 0)],
                          msg |-> Skip(At(params, 1), 1)], <<>>)
            ELSE Panic
      [] cmd = "PART" ->
            IF Len(params) = 1
            THEN IF HasTail(params, 0)
                 THEN Decoded([tag |-> "Part", chan |-> Skip(At(params, 0), 1),
                               msg |-> ""], <<>>)
                 ELSE Panic
            ELSE IF Has(params, 0) /\ HasTail(params, 1)
                 THEN Decoded([tag |-> "Part", chan |-> At(params, 0),
                               msg |-> Skip(At(params, 1), 1)], <<>>)
                 ELSE Panic
      [] cmd = "NOTICE" -> MsgAt1("Notice", params)
      [] cmd = "NICK" -> parse_cmd_nick(params)
      [] cmd = "ERROR" -> parse_cmd_error(params)
      [] cmd = "001" -> MsgAt1("RplWelcome", params)
      [] cmd = "002" -> MsgAt1("RplYourHost", params)
      [] cmd = "003" -> MsgAt1("RplCreated", params)
      [] cmd = "004" ->
            IF Len(params) >= 1 /\ Has(params, 4) /\ HasTail(params, 5)
            THEN Decoded([tag |-> "RplMyInfo",
                          version |-> At(params, 2),
                          umodes |-> At(params, 3),
                          cmodes |-> At(params, 4),
                          cmodes_param |-> Skip(At(params, 5), 1)], <<>>)
            ELSE Panic
      [] cmd = "005" -> MsgJoin1("RplISupport", params)
      [] cmd = "251" -> MsgAt1("RplLuserClient", params)
      [] cmd = "252" -> MsgJoin1("RplLuserOp", params)
      [] cmd = "253" -> MsgJoin1("RplLuserUnknown", params)
      [] cmd = "254" -> MsgJoin1("RplLuserChannels", params)
      [] cmd = "255" -> MsgAt1("RplLuserMe", params)
      [] cmd = "265" -> MsgAt1("RplLocalUsers", params)
      [] cmd = "266" -> MsgAt1("RplGlobalUsers", params)
      [] cmd = "353" ->
            IF Has(params, 2) /\ HasTail(params, 3)
            THEN Decoded([tag |-> "NameReply",
                          sym |-> CharAt(At(params, 1), 1),
                          chan |-> At(params, 2),
                          nicks |-> split_whitespace(Skip(At(params, 3), 1))], <<>>)
            ELSE Panic
      [] cmd = "366" ->
            IF Has(params, 1) /\ HasTail(params, 2)
            THEN Decoded([tag |-> "EndOfNames",
                          msg |-> At(params, 1) \o " " \o Skip(At(params, 2), 1)], <<>>)
            ELSE Panic
      [] cmd = "375" -> MsgAt1("MOTDStart", params)
      [] cmd = "372" -> MsgAt1("Motd", params)
      [] cmd = "376" -> MsgAt1("MOTDEnd", params)
      [] cmd = "396" ->
            IF Has(params, 1) /\ HasTail(params, 2)
            THEN Decoded([tag |-> "DisplayedHost",
                          msg |-> At(params, 1) \o " " \o Skip(At(params, 2), 1)], <<>>)
            ELSE Panic
      [] OTHER -> Decoded([tag |-> "Unknown", code |-> cmd], params)

\* splitn(2, c): the text before the first c and the text after it
Before(s, c) == SubSeq(s, 1, Find(s, c) - 1)
After(s, c) == Skip(s, Find(s, c))

parse_prefix(prefix) ==
    IF Contains(prefix, "!") /\ Contains(prefix, "@")
    THEN LET nick == Before(prefix, "!")
             rest == After(prefix, "!")
         IN  IF Contains(rest, "@")
             THEN [panic |-> FALSE, kind |-> "User", nick |-> nick,
                   user |-> Before(rest, "@"), host |-> After(rest, "@")]
             ELSE Panic
    ELSE [panic |-> FALSE, kind |-> "Server", name |-> prefix]

NoPrefix == [panic |-> FALSE, kind |-> "None"]

\* index (1-based) of the first token that starts with ':', 0 when none
TrailingIndex(rest) ==
    IF \E i \in 1..Len(rest) : StartsWith(rest[i], ":")
    THEN CHOOSE i \in 1..Len(rest) :
            StartsWith(rest[i], ":") /\ \A j \in 1..(i - 1) : ~StartsWith(rest[j], ":")
    ELSE 0

\* a parameter list whose trailing parameter is its first token only
collect_params_first(rest) ==
    LET t == TrailingIndex(rest)
    IN  IF t # 0 THEN Append(SubSeq(rest, 1, t - 1), rest[t]) ELSE <<>>

\* the parameter list parse_msg builds from the tokens after the command
collect_params(rest) ==
    LET t == TrailingIndex(rest)
    IN  IF t # 0
        THEN Append(SubSeq(rest, 1, t - 1), Join(SubSeq(rest, t, Len(rest)), " "))
        ELSE <<>>

parse_msg(msg) ==
    LET parts == split_whitespace(msg)
    IN  IF Len(parts) = 0 THEN Panic
        ELSE
        LET hasPrefix == StartsWith(parts[1], ":")
            prefix == IF hasPrefix THEN parse_prefix(Skip(parts[1], 1)) ELSE NoPrefix
            after == IF hasPrefix THEN Tail(parts) ELSE parts
        IN  IF prefix.panic \/ Len(after) = 0 THEN Panic
            ELSE
            LET r == parse_cmd(after[1], collect_params(Tail(after)))
            IN  IF r.panic THEN Panic
                ELSE [panic |-> FALSE, prefix |-> prefix,
                      command |-> r.command, params |-> r.params]

(***************************************************************************)
(* The environment: what the user types and what the servers send.         *)
(***************************************************************************)
\* the keys of a text, one KeyCode::Char per character
Typed(text) == [i \in 1..Len(text) |-> CharAt(text, i)]

\* lines the user types and commits
InputTexts == {"/connect a", "/connect b", "/join #c", "hi", "/quit bye", "/nick n2"}

\* text the user types without committing it
PartialTexts == {"/join"}

\* the bursts of keys the user sends: a key is the one-character string of
\* a KeyCode::Char, or the name of another KeyCode
Bursts ==
    {Typed(t) \o <<"Enter">> : t \in InputTexts}
    \cup {Typed(t) : t \in PartialTexts}
    \cup {<<"Enter">>, <<"Tab">>, <<"Backspace">>, <<"Esc">>}

\* lines a server may deliver
InboundLines ==
    {"PING :t1", "PING", ":n!u@h PRIVMSG #c :hi", ":irc NOTICE me :up", "FOO x",
     ":n!u@h JOIN", ":irc JOIN :#c", ":n!u@h NICK :n3", "ERROR :bye"}

\* main.rs, Config::default
config == [nick |-> "meager-irc-client", user |-> "guest", real |-> "Meager"]

DefaultPort == 6667

RECURSIVE NatStr(_)
\* {n} of an unsigned integer
NatStr(n) ==
    LET d == <<"0", "1", "2", "3", "4", "5", "6", "7", "8", "9">>
    IN  IF n < 10 THEN d[n + 1] ELSE NatStr(n \div 10) \o d[(n % 10) + 1]

(***************************************************************************)
(* State.                                                                  *)
(***************************************************************************)
VARIABLES
    tabs,      \* InnerUI.tabs: sequence of [id, input, lines]
    cur_tab,   \* InnerUI.cur_tab, 0-based as in the source
    clients,   \* the Vec<Client> of ui_loop: sequence of [name, cur_nick];
               \* clients[i] holds the command sender of sessions[i]
    sessions,  \* per /connect: the network_loop task, its three channels and
               \* its handle_network_events task
    ui,        \* the key loop: "run", "exit" (Esc) or "panic"
    inputs     \* events the environment has delivered so far

vars == <<tabs, cur_tab, clients, sessions, ui, inputs>>

(***************************************************************************)
(* ui.rs: TabKind, Tab, InnerUI.                                           *)
(***************************************************************************)
Debug == [kind |-> "Debug", serv |-> "", name |-> ""]
Serv(serv) == [kind |-> "Serv", serv |-> serv, name |-> ""]
Chan(serv, chan) == [kind |-> "Chan", serv |-> serv, name |-> chan]
Query(serv, nick) == [kind |-> "Query", serv |-> serv, name |-> nick]

\* impl Display for TabKind
Display(id) ==
    CASE id.kind = "Debug" -> "__debug__"
      [] id.kind = "Serv" -> id.serv
      [] OTHER -> id.name

\* Tab::new
NewTab(id) == [id |-> id, input |-> "", lines |-> <<>>]

\* an add_line that puts the new line first
add_line_first(tab, line) == [tab EXCEPT !.lines = <<line>> \o @]

\* Tab::add_line
add_line(tab, line) == [tab EXCEPT !.lines = Append(@, line)]

\* InnerUI::new
NewUI == [tabs |-> <<NewTab(Debug)>>, cur_tab |-> 0]

\* InnerUI::dbg
dbg(u, msg) == [u EXCEPT !.tabs[1] = add_line(@, msg)]

\* InnerUI::tab_position: 0-based position of the first tab with this id,
\* -1 for None
tab_position(u, id) ==
    IF \E k \in 1..Len(u.tabs) : u.tabs[k].id = id
    THEN (CHOOSE k \in 1..Len(u.tabs) :
            u.tabs[k].id = id /\ \A j \in 1..(k - 1) : u.tabs[j].id # id) - 1
    ELSE -1

\* a lookup that compares the kind and the name of an id and not its serv
find_tab_any_serv(u, id) ==
    LET same(k) == u.tabs[k].id.kind = id.kind /\ u.tabs[k].id.name = id.name
    IN  IF \E k \in 1..Len(u.tabs) : same(k)
        THEN (CHOOSE k \in 1..Len(u.tabs) :
                same(k) /\ \A j \in 1..(k - 1) : ~same(j)) - 1
        ELSE -1

\* InnerUI::find_tab_mut, as the position of the tab it returns
find_tab_mut(u, id) == tab_position(u, id)

\* the TabKind InnerUI::add_msg resolves a target to
TargetTab(serv_name, target) ==
    CASE target.kind = "Chan" -> Chan(serv_name, target.name)
      [] target.kind = "User" -> Query(serv_name, target.name)
      [] OTHER -> Serv(target.name)

\* {target:?} of a MsgTarget
DebugTarget(target) == target.kind \o "(" \o DebugStr(target.name) \o ")"

\* an add_msg that drops the message when the tab is missing
add_msg_drop(u, serv_name, target, msg) ==
    LET pos == find_tab_mut(u, TargetTab(serv_name, target))
    IN  IF pos >= 0
        THEN [u EXCEPT !.tabs[pos + 1] = add_line(@, msg)]
        ELSE u

\* an add_msg that opens the tab when it is missing
add_msg_open(u, serv_name, target, msg) ==
    LET id == TargetTab(serv_name, target)
        pos == find_tab_mut(u, id)
    IN  IF pos >= 0
        THEN [u EXCEPT !.tabs[pos + 1] = add_line(@, msg)]
        ELSE [u EXCEPT !.tabs = Append(@, add_line(NewTab(id), msg))]

\* InnerUI::add_msg
add_msg(u, serv_name, target, msg) ==
    LET pos == find_tab_mut(u, TargetTab(serv_name, target))
    IN  IF pos >= 0
        THEN [u EXCEPT !.tabs[pos + 1] = add_line(@, msg)]
        ELSE dbg(u, "[" \o serv_name \o "] No tab found " \o DebugTarget(target)
                    \o " (" \o msg \o ")")

\* UI::add_serv_msg
add_serv_msg(u, serv_name, msg) ==
    add_msg(u, serv_name, [kind |-> "Serv", name |-> serv_name], msg)

\* InnerUI::add_tab
add_tab(u, id) == [u EXCEPT !.tabs = Append(@, NewTab(id))]

\* UI::change_to_tab over InnerUI::change_to_tab
change_to_tab(u, id) ==
    LET pos == tab_position(u, id)
    IN  IF pos >= 0
        THEN [u EXCEPT !.cur_tab = pos]
        ELSE dbg(u, "change_to_tab: No tab found for " \o Display(id))

\* a next_tab that steps over a tab
next_tab_skip(u) == [u EXCEPT !.cur_tab = (u.cur_tab + 2) % Len(u.tabs)]

\* next_tab without the wrap at the last tab
next_tab_nowrap(u) == [u EXCEPT !.cur_tab = u.cur_tab + 1]

\* InnerUI::next_tab
next_tab(u) == [u EXCEPT !.cur_tab = (u.cur_tab + 1) % Len(u.tabs)]

\* InnerUI::push_input
push_input(u, c) == [u EXCEPT !.tabs[u.cur_tab + 1].input = @ \o c]

\* InnerUI::pop_input
pop_input(u) ==
    [u EXCEPT !.tabs[u.cur_tab + 1].input =
        IF Len(@) = 0 THEN @ ELSE SubSeq(@, 1, Len(@) - 1)]

\* a take_input that clears the input line of every tab
take_input_all(u) ==
    [u EXCEPT !.tabs = [k \in 1..Len(u.tabs) |-> [u.tabs[k] EXCEPT !.input = ""]]]

\* InnerUI::take_input: the model afterwards (the text taken is the input
\* of the current tab before)
take_input(u) == [u EXCEPT !.tabs[u.cur_tab + 1].input = ""]

\* UI::current_tab
current_tab(u) == u.tabs[u.cur_tab + 1]

(***************************************************************************)
(* client.rs: ServInfo, Client and the channels of connect().              *)
(***************************************************************************)
\* {serv_info:?}
DebugServInfo(info) ==
    "ServInfo { addr: " \o DebugStr(info.addr) \o ", port: " \o NatStr(info.port)
    \o ", nick: " \o DebugStr(info.nick) \o ", user: " \o DebugStr(info.user)
    \o ", real: " \o DebugStr(info.real) \o " }"

\* positions of the network_loop task at which it has ended: its senders
\* ev_tx and dbg_tx and its receiver cmd_rx are dropped
Ended == {"done", "panicked"}

\* connect(): three empty channels, a spawned network_loop, and next to it
\* the handle_network_events task commit_input spawns (disp).  rd, wire,
\* sub, evs and dbgs record what the task read from the transport, wrote to
\* it, what the handle submitted and what was sent on ev_tx and dbg_tx.
NewSession(info) ==
    [info |-> info, pc |-> "connect", hand |-> "", eof |-> FALSE, why |-> "",
     cmdq |-> <<>>, evq |-> <<>>, dbgq |-> <<>>, disp |-> "run",
     rd |-> <<>>, wire |-> <<>>, sub |-> <<>>, evs |-> <<>>, dbgs |-> <<>>]

\* connect(): the Client it returns
NewClient(info) == [name |-> info.addr, cur_nick |-> info.nick]

\* a send on an unbounded channel: a live receiver is all it needs
CanSendUnbounded(s) == s.pc \notin Ended

\* a try_send that looks at the room in the channel only
CanSendClosed(s) == Len(s.cmdq) < ChanCap

\* Client::send succeeds: try_send finds the receiver alive and a free slot
CanSend(s) == s.pc \notin Ended /\ Len(s.cmdq) < ChanCap

\* Client::send on session i, when try_send succeeds
client_send(ss, i, msg) ==
    [ss EXCEPT ![i].cmdq = Append(@, msg), ![i].sub = Append(@, msg)]

\* a Client::privmsg that leaves out the `:` of the trailing parameter
client_privmsg_bare(target, msg) == "PRIVMSG " \o target \o " " \o msg \o "\r\n"

\* Client::quit, Client::join, Client::nick, Client::privmsg: the text sent
client_quit(msg) == "QUIT :" \o msg \o "\r\n"
client_join(chan) == "JOIN " \o chan \o "\r\n"
client_nick(nick) == "NICK " \o nick \o "\r\n"
client_privmsg(target, msg) == "PRIVMSG " \o target \o " :" \o msg \o "\r\n"

\* clients.iter().find(|c| c.name == serv): 1-based position, 0 for None
find_client(cl, serv) ==
    IF \E i \in 1..Len(cl) : cl[i].name = serv
    THEN CHOOSE i \in 1..Len(cl) :
            cl[i].name = serv /\ \A j \in 1..(i - 1) : cl[j].name # serv
    ELSE 0

\* UI::find_client_for_current_tab(_mut)
find_client_for_current_tab(u, cl) ==
    IF current_tab(u).id.kind = "Debug" THEN 0
    ELSE find_client(cl, current_tab(u).id.serv)

(***************************************************************************)
(* ui.rs: UI::commit_input.  The result is the model, the clients and the  *)
(* sessions afterwards, and whether the key loop panicked on the way (a    *)
(* failed Client::send); what was done before the panic stays done.        *)
(***************************************************************************)
Committed(u, cl, ss, p) == [u |-> u, clients |-> cl, sessions |-> ss, panic |-> p]

commit_connect(u, cl, ss, addr) ==
    LET info == [addr |-> addr, port |-> DefaultPort, nick |-> config.nick,
                 user |-> config.user, real |-> config.real]
        u1 == dbg(dbg(u, "Connecting to " \o addr), DebugServInfo(info))
        tab_id == Serv(info.addr)
        u2 == change_to_tab(add_tab(u1, tab_id), tab_id)
    IN  Committed(u2, Append(cl, NewClient(info)), Append(ss, NewSession(info)), FALSE)

\* a /join that also works on the channel and query tabs of a server
commit_join_anywhere(u, cl, ss, chan) ==
    LET id == current_tab(u).id
    IN  IF id.kind # "Debug"
        THEN LET u1 == dbg(u, "Joining " \o chan \o " on " \o id.serv)
                 i == find_client(cl, id.serv)
             IN  IF i # 0
                 THEN IF CanSend(ss[i])
                      THEN LET tab_id == Chan(id.serv, chan)
                           IN  Committed(change_to_tab(add_tab(u1, tab_id), tab_id), cl,
                                         client_send(ss, i, client_join(chan)), FALSE)
                      ELSE Committed(u1, cl, ss, TRUE)
                 ELSE Committed(dbg(u1, "No client found for server " \o id.serv),
                                cl, ss, FALSE)
        ELSE Committed(dbg(u, "Join command on debug tab"), cl, ss, FALSE)

commit_join(u, cl, ss, chan) ==
    LET id == current_tab(u).id
    IN  IF id.kind = "Serv"
        THEN LET u1 == dbg(u, "Joining " \o chan \o " on " \o id.serv)
                 i == find_client(cl, id.serv)
             IN  IF i # 0
                 THEN IF CanSend(ss[i])
                      THEN LET tab_id == Chan(id.serv, chan)
                           IN  Committed(change_to_tab(add_tab(u1, tab_id), tab_id), cl,
                                         client_send(ss, i, client_join(chan)), FALSE)
                      ELSE Committed(u1, cl, ss, TRUE)
                 ELSE Committed(dbg(u1, "No client found for server " \o id.serv),
                                cl, ss, FALSE)
        ELSE Committed(dbg(u, "Join command on debug tab"), cl, ss, FALSE)

\* a /quit that also blanks the name of the handle, so that no tab finds it
commit_quit_drop(u, cl, ss, msg) ==
    LET i == find_client_for_current_tab(u, cl)
    IN  IF i = 0 THEN Committed(u, cl, ss, FALSE)
        ELSE IF CanSend(ss[i])
             THEN Committed(u, [cl EXCEPT ![i].name = ""],
                            client_send(ss, i, client_quit(msg)), FALSE)
             ELSE Committed(u, cl, ss, TRUE)

commit_quit(u, cl, ss, msg) ==
    LET i == find_client_for_current_tab(u, cl)
    IN  IF i = 0 THEN Committed(u, cl, ss, FALSE)
        ELSE IF CanSend(ss[i])
             THEN Committed(u, cl, client_send(ss, i, client_quit(msg)), FALSE)
             ELSE Committed(u, cl, ss, TRUE)

\* a Client::nick that sets cur_nick and sends nothing
commit_nick_unsent(u, cl, ss, nick) ==
    LET i == find_client_for_current_tab(u, cl)
    IN  IF i = 0 THEN Committed(u, cl, ss, FALSE)
        ELSE IF CanSend(ss[i])
             THEN Committed(u, [cl EXCEPT ![i].cur_nick = nick], ss, FALSE)
             ELSE Committed(u, cl, ss, TRUE)

\* a Client::nick that sends NICK and leaves cur_nick as it was
commit_nick_forget(u, cl, ss, nick) ==
    LET i == find_client_for_current_tab(u, cl)
    IN  IF i = 0 THEN Committed(u, cl, ss, FALSE)
        ELSE IF CanSend(ss[i])
             THEN Committed(u, cl, client_send(ss, i, client_nick(nick)), FALSE)
             ELSE Committed(u, cl, ss, TRUE)

commit_nick(u, cl, ss, nick) ==
    LET i == find_client_for_current_tab(u, cl)
    IN  IF i = 0 THEN Committed(u, cl, ss, FALSE)
        ELSE IF CanSend(ss[i])
             THEN Committed(u, [cl EXCEPT ![i].cur_nick = nick],
                            client_send(ss, i, client_nick(nick)), FALSE)
             ELSE Committed(u, cl, ss, TRUE)

commit_msg(u, cl, ss, msg) ==
    LET id == current_tab(u).id
    IN  CASE id.kind = "Serv" ->
                Committed(dbg(u, "Message sent on server tab: " \o msg), cl, ss, FALSE)
          [] id.kind = "Debug" ->
                Committed(dbg(u, "Message command on debug tab"), cl, ss, FALSE)
          [] OTHER ->
                LET target == [kind |-> IF id.kind = "Chan" THEN "Chan" ELSE "User",
                               name |-> id.name]
                    u1 == dbg(u, "Sending message to " \o id.name \o " on " \o id.serv
                                 \o ": " \o msg)
                    i == find_client(cl, id.serv)
                IN  IF i = 0
                    THEN Committed(dbg(u1, "No client found for server " \o id.serv),
                                   cl, ss, FALSE)
                    ELSE IF CanSend(ss[i])
                         THEN Committed(
                                add_msg(u1, cl[i].name, target,
                                        "<" \o cl[i].cur_nick \o "> " \o msg),
                                cl, client_send(ss, i, client_privmsg(target.name, msg)),
                                FALSE)
                         ELSE Committed(u1, cl, ss, TRUE)

commit_input(u0, cl, ss) ==
    LET input == current_tab(u0).input
        u == take_input(u0)
        cmd == parse_input(input)
    IN  IF ~cmd.ok
        THEN Committed(dbg(u, "Command parse error: " \o cmd.err), cl, ss, FALSE)
        ELSE CASE cmd.tag = "Connect" -> commit_connect(u, cl, ss, cmd.arg)
               [] cmd.tag = "Join" -> commit_join(u, cl, ss, cmd.arg)
               [] cmd.tag = "Quit" -> commit_quit(u, cl, ss, cmd.arg)
               [] cmd.tag = "Nick" -> commit_nick(u, cl, ss, cmd.arg)
               [] cmd.tag = "Msg" -> commit_msg(u, cl, ss, cmd.arg)
               [] OTHER ->
                    Committed(dbg(u, "Unsupported command: " \o cmd.cmd \o " " \o cmd.arg),
                              cl, ss, FALSE)

(***************************************************************************)
(* client.rs: handle_network_events, the arm of one Event::Msg.            *)
(***************************************************************************)
\* {command:?} of ServCmd::Unknown
DebugUnknown(command) == "Unknown(" \o DebugStr(command.code) \o ")"

\* the arms `ServCmd::X { msg } => tui.add_serv_msg(&serv_name, &msg)`
ServMsgTags ==
    {"Notice", "Error", "RplWelcome", "RplYourHost", "RplCreated", "RplISupport",
     "RplLuserClient", "RplLuserOp", "RplLuserUnknown", "RplLuserChannels",
     "RplLuserMe", "RplLocalUsers", "RplGlobalUsers", "EndOfNames", "MOTDStart",
     "Motd", "MOTDEnd", "DisplayedHost"}

handle_msg(u, serv_name, msg) ==
    LET prefix == msg.prefix
        command == msg.command
        who == prefix.nick \o " (" \o prefix.user \o "@" \o prefix.host \o ")"
    IN  CASE command.tag = "PrivMsg" ->
                CASE prefix.kind = "User" ->
                        add_msg(u, serv_name, command.target,
                                "<" \o prefix.nick \o "> " \o command.msg)
                  [] prefix.kind = "Server" ->
                        add_serv_msg(u, serv_name,
                                     "[" \o prefix.name \o "] " \o command.msg)
                  [] OTHER ->
                        dbg(u, "[" \o serv_name \o "] PRIVMSG with no prefix "
                               \o DebugStr(command.msg))
          [] command.tag = "Join" ->
                IF prefix.kind = "User"
                THEN add_msg(u, serv_name, [kind |-> "Chan", name |-> command.chan],
                             who \o " joined " \o command.chan)
                ELSE u
          [] command.tag = "Part" ->
                IF prefix.kind = "User"
                THEN add_msg(u, serv_name, [kind |-> "Chan", name |-> command.chan],
                             IF command.msg = ""
                             THEN who \o " left " \o command.chan
                             ELSE who \o " left " \o command.chan
                                      \o " (" \o command.msg \o ")")
                ELSE u
          [] command.tag = "Nick" ->
                IF prefix.kind = "User"
                THEN add_msg(u, serv_name, [kind |-> "Serv", name |-> serv_name],
                             prefix.nick \o " is now known as " \o command.nick)
                ELSE u
          [] command.tag \in ServMsgTags -> add_serv_msg(u, serv_name, command.msg)
          [] command.tag = "RplMyInfo" ->
                add_serv_msg(u, serv_name,
                             command.version \o " " \o command.umodes \o " "
                             \o command.cmodes \o " " \o command.cmodes_param)
          [] command.tag = "NameReply" ->
                add_serv_msg(u, serv_name,
                             command.sym \o " " \o command.chan \o " "
                             \o Join(command.nicks, " "))
          [] OTHER ->
                dbg(u, "[" \o serv_name \o "] unhandled command " \o DebugUnknown(command))

\* a dispatcher that closes the tabs of a server when it disconnects
handle_event_close(u, serv_name, ev) ==
    IF ev.tag = "Disconnected"
    THEN LET d == dbg(u, serv_name \o ": TcpStream disconnected")
         IN  [tabs |-> SelectSeq(d.tabs, LAMBDA t : t.id.kind = "Debug"
                                                    \/ t.id.serv # serv_name),
              cur_tab |-> 0]
    ELSE handle_msg(u, serv_name, ev.msg)

\* the arm of one Event
handle_event(u, serv_name, ev) ==
    IF ev.tag = "Disconnected"
    THEN dbg(u, serv_name \o ": TcpStream disconnected")
    ELSE handle_msg(u, serv_name, ev.msg)

(***************************************************************************)
(* The system.                                                             *)
(***************************************************************************)
UIState == [tabs |-> tabs, cur_tab |-> cur_tab]

Init ==
    /\ tabs = NewUI.tabs
    /\ cur_tab = NewUI.cur_tab
    /\ clients = <<>>
    /\ sessions = <<>>
    /\ ui = "run"
    /\ inputs = 0

\* the process is alive: once the key loop ends (Esc) or panics, main
\* returns and every task stops
Alive == ui = "run"

\* the environment delivers one more event
Input == inputs < MaxInputs /\ inputs' = inputs + 1

\* a transport call succeeds (ok) or the environment makes it fail
Outcome(ok) == IF ok THEN UNCHANGED inputs ELSE Input

SetUI(u) == tabs' = u.tabs /\ cur_tab' = u.cur_tab

(***************************************************************************)
(* ui.rs: ui_loop.  The state of the loop is the model, the clients, the   *)
(* sessions and whether the loop runs.                                     *)
(***************************************************************************)
Loop(u, cl, ss, st) == [u |-> u, clients |-> cl, sessions |-> ss, ui |-> st]

\* one iteration of ui_loop: the arm of one KeyCode
handle_key(l, key) ==
    CASE key = "Esc" -> [l EXCEPT !.ui = "exit"]
      [] key = "Enter" ->
            LET r == commit_input(l.u, l.clients, l.sessions)
            IN  Loop(r.u, r.clients, r.sessions, IF r.panic THEN "panic" ELSE "run")
      [] key = "Backspace" -> [l EXCEPT !.u = pop_input(@)]
      [] key = "Tab" -> [l EXCEPT !.u = next_tab(@)]
      [] OTHER -> [l EXCEPT !.u = push_input(@, key)]

RECURSIVE ui_loop(_, _)
\* ui_loop over the keys queued on input_rx, until it leaves the loop
ui_loop(l, burst) ==
    IF burst = <<>> \/ l.ui # "run" THEN l
    ELSE ui_loop(handle_key(l, Head(burst)), Tail(burst))

\* the key loop takes a burst of keys from input_rx
Keys(burst) ==
    /\ Alive /\ Input
    /\ LET l == ui_loop(Loop(UIState, clients, sessions, ui), burst)
       IN  /\ SetUI(l.u)
           /\ clients' = l.clients
           /\ sessions' = l.sessions
           /\ ui' = l.ui

(***************************************************************************)
(* client.rs: network_loop of session i.                                   *)
(***************************************************************************)
Sess(i) == sessions[i]

\* send(&mut writer, text): the write appended to the transport
Written(s, src, text) == [s EXCEPT !.wire = Append(@, [src |-> src, text |-> text])]

SetSess(i, s) ==
    /\ sessions' = [sessions EXCEPT ![i] = s]
    /\ UNCHANGED <<tabs, cur_tab, clients, ui>>

\* the task panics; why: "connect" (the .expect on the Err of
\* TcpStream::connect), "io" (an .expect on the Err of a transport call),
\* "closed" (an .expect on the Err of a send to a dropped receiver),
\* "slice" (&line[5..] out of range) or "parse" (a panic inside parse_msg)
Panicked(s, why) == [s EXCEPT !.pc = "panicked", !.hand = "", !.why = why]

\* a handshake that writes USER before NICK
handshake_user_first(s, fail) ==
    LET user == Written(s, "hs",
                        "USER " \o s.info.user \o " 0 * :" \o s.info.real \o "\r\n")
        nick == Written(user, "hs", "NICK " \o s.info.nick \o "\r\n")
    IN  CASE fail = "connect" -> Panicked(s, "connect")
          [] fail = "nick" -> Panicked(s, "io")
          [] fail = "user" -> Panicked(user, "io")
          [] OTHER -> [nick EXCEPT !.pc = "select"]

\* network_loop up to its loop: TcpStream::connect, then NICK and USER are
\* written.  fail names the call that gives Err ("none": all succeed).  The
\* task touches no channel on the way, so no other task can tell the three
\* calls apart and they are one step.
handshake(s, fail) ==
    LET nick == Written(s, "hs", "NICK " \o s.info.nick \o "\r\n")
        user == Written(nick, "hs",
                        "USER " \o s.info.user \o " 0 * :" \o s.info.real \o "\r\n")
    IN  CASE fail = "connect" -> Panicked(s, "connect")
          [] fail = "nick" -> Panicked(s, "io")
          [] fail = "user" -> Panicked(nick, "io")
          [] OTHER -> [user EXCEPT !.pc = "select"]

SessStart(i, fail) ==
    /\ Alive /\ Outcome(fail = "none") /\ Sess(i).pc = "connect"
    /\ SetSess(i, handshake(Sess(i), fail))

\* ev_tx.try_send(ev) in place of send(ev).await: an event that finds the
\* channel full is dropped and the task goes on
ev_try_send(s) ==
    IF s.disp # "run" THEN Panicked(s, "closed")
    ELSE IF Len(s.evq) >= ChanCap
    THEN [s EXCEPT !.hand = "", !.pc = IF s.eof THEN "done" ELSE "select"]
    ELSE [s EXCEPT !.evq = Append(@, s.hand), !.evs = Append(@, s.hand),
                   !.hand = "", !.pc = IF s.eof THEN "done" ELSE "select"]

\* ev_tx.send(ev).await with ev in hand: sent when the channel has room
\* (the task goes on), fails when the receiver is gone (the .expect
\* panics), waits otherwise
ev_send(s) ==
    IF s.disp # "run" THEN Panicked(s, "closed")
    ELSE IF Len(s.evq) >= ChanCap THEN [s EXCEPT !.pc = "ev_send"]
    ELSE [s EXCEPT !.evq = Append(@, s.hand), !.evs = Append(@, s.hand),
                   !.hand = "", !.pc = IF s.eof THEN "done" ELSE "select"]

\* a dbg_tx.try_send(..).expect(..): a full channel panics the task
dbg_send_fatal(s) ==
    IF s.disp # "run" \/ Len(s.dbgq) >= ChanCap THEN Panicked(s, "closed")
    ELSE LET t == [s EXCEPT !.dbgq = Append(@, s.hand), !.dbgs = Append(@, s.hand)]
             msg == parse_msg(s.hand)
         IN  IF msg.panic THEN Panicked(t, "parse")
             ELSE ev_send([t EXCEPT !.hand = [tag |-> "Msg", msg |-> msg]])

\* dbg_tx.send(line.clone()).await with the line in hand, then
\* parse_msg(&line) and the send of its Event::Msg
dbg_send(s) ==
    IF s.disp # "run" THEN Panicked(s, "closed")
    ELSE IF Len(s.dbgq) >= ChanCap THEN [s EXCEPT !.pc = "dbg_send"]
    ELSE LET t == [s EXCEPT !.dbgq = Append(@, s.hand), !.dbgs = Append(@, s.hand)]
             msg == parse_msg(s.hand)
         IN  IF msg.panic THEN Panicked(t, "parse")
             ELSE ev_send([t EXCEPT !.hand = [tag |-> "Msg", msg |-> msg]])

\* the PING arm: format the PONG from &line[5..] and write it
ping_arm(s, line, ok) ==
    IF Len(line) < 5 THEN Panicked(s, "slice")
    ELSE IF ~ok THEN Panicked(s, "io")
    ELSE Written(s, "pong", "PONG " \o Skip(line, 5) \o "\r\n")

\* the arm of Ok(Some(line))
line_arm(s, line, ok) ==
    IF StartsWith(line, "PING")
    THEN ping_arm(s, line, ok)
    ELSE dbg_send([s EXCEPT !.hand = line])

\* reader.next_line() gives Ok(Some(line)); ok: the write of a PONG succeeds
SessReadLine(i, line, ok) ==
    /\ Alive /\ Input /\ Sess(i).pc = "select"
    /\ ok \/ StartsWith(line, "PING")
    /\ SetSess(i, line_arm([Sess(i) EXCEPT !.rd = Append(@, line)], line, ok))

\* a send that waited for room in dbg_tx goes on
SessDbgSend(i) ==
    /\ Alive /\ UNCHANGED inputs /\ Sess(i).pc = "dbg_send"
    /\ Sess(i).disp # "run" \/ Len(Sess(i).dbgq) < ChanCap
    /\ SetSess(i, dbg_send(Sess(i)))

\* a send that waited for room in ev_tx goes on
SessEvSend(i) ==
    /\ Alive /\ UNCHANGED inputs /\ Sess(i).pc = "ev_send"
    /\ Sess(i).disp # "run" \/ Len(Sess(i).evq) < ChanCap
    /\ SetSess(i, ev_send(Sess(i)))

\* reader.next_line() gives Ok(None)
SessReadEof(i) ==
    /\ Alive /\ Input /\ Sess(i).pc = "select"
    /\ SetSess(i, ev_send([Sess(i) EXCEPT !.eof = TRUE,
                                          !.hand = [tag |-> "Disconnected"]]))

\* reader.next_line() gives Err(e)
SessReadErr(i) ==
    /\ Alive /\ Input /\ Sess(i).pc = "select"
    /\ SetSess(i, [Sess(i) EXCEPT !.pc = "done"])

\* the command is written with a line end of its own added
cmd_arm_crlf(s, ok) ==
    LET t == [s EXCEPT !.cmdq = Tail(@)]
    IN  IF ok THEN Written(t, "cmd", Head(s.cmdq) \o "\r\n") ELSE Panicked(t, "io")

\* the arm of cmd_rx.recv(): the command taken from the queue is written
cmd_arm(s, ok) ==
    LET t == [s EXCEPT !.cmdq = Tail(@)]
    IN  IF ok THEN Written(t, "cmd", Head(s.cmdq)) ELSE Panicked(t, "io")

\* cmd_rx.recv() gives Some(cmd)
SessCmd(i, ok) ==
    /\ Alive /\ Outcome(ok) /\ Sess(i).pc = "select" /\ Len(Sess(i).cmdq) > 0
    /\ SetSess(i, cmd_arm(Sess(i), ok))

\* a dispatcher that leaves its loop on an Error as it does on Disconnected
DispEventStop(i) ==
    /\ Alive /\ Sess(i).disp = "run" /\ Len(Sess(i).evq) > 0
    /\ LET ev == Head(Sess(i).evq)
           stop == \/ ev.tag = "Disconnected"
                   \/ ev.tag = "Msg" /\ ev.msg.command.tag = "Error"
       IN  /\ SetUI(handle_event(UIState, clients[i].name, ev))
           /\ sessions' = [sessions EXCEPT
                             ![i].evq = Tail(@),
                             ![i].disp = IF stop THEN "done" ELSE @]
    /\ UNCHANGED <<clients, ui, inputs>>

(***************************************************************************)
(* client.rs: handle_network_events of session i.                          *)
(***************************************************************************)
\* Some(ev) = ev_rx.recv()
DispEvent(i) ==
    /\ Alive /\ Sess(i).disp = "run" /\ Len(Sess(i).evq) > 0
    /\ LET ev == Head(Sess(i).evq)
       IN  /\ SetUI(handle_event(UIState, clients[i].name, ev))
           /\ sessions' = [sessions EXCEPT
                             ![i].evq = Tail(@),
                             ![i].disp = IF ev.tag = "Disconnected" THEN "done" ELSE @]
    /\ UNCHANGED <<clients, ui, inputs>>

\* Some(msg) = dbg_rx.recv()
DispDebug(i) ==
    /\ Alive /\ Sess(i).disp = "run" /\ Len(Sess(i).dbgq) > 0
    /\ SetUI(dbg(UIState, Head(Sess(i).dbgq)))
    /\ sessions' = [sessions EXCEPT ![i].dbgq = Tail(@)]
    /\ UNCHANGED <<clients, ui, inputs>>

\* both recv() give None: select! finds every branch disabled and panics
DispClosed(i) ==
    /\ Alive /\ Sess(i).disp = "run"
    /\ Sess(i).pc \in Ended /\ Len(Sess(i).evq) = 0 /\ Len(Sess(i).dbgq) = 0
    /\ sessions' = [sessions EXCEPT ![i].disp = "panicked"]
    /\ UNCHANGED <<tabs, cur_tab, clients, ui, inputs>>

\* the sessions /connect has created so far
Ids == 1..Len(sessions)

Next ==
    \/ \E burst \in Bursts : Keys(burst)
    \/ \E i \in Ids, fail \in {"connect", "nick", "user", "none"} : SessStart(i, fail)
    \/ \E i \in Ids, line \in InboundLines, ok \in BOOLEAN : SessReadLine(i, line, ok)
    \/ \E i \in Ids : SessDbgSend(i)
    \/ \E i \in Ids : SessEvSend(i)
    \/ \E i \in Ids : SessReadEof(i)
    \/ \E i \in Ids : SessReadErr(i)
    \/ \E i \in Ids, ok \in BOOLEAN : SessCmd(i, ok)
    \/ \E i \in Ids : DispEvent(i)
    \/ \E i \in Ids : DispDebug(i)
    \/ \E i \in Ids : DispClosed(i)

Spec == Init /\ [][Next]_vars

(***************************************************************************)
(* The claims.                                                             *)
(***************************************************************************)
\* C1: no two tabs of the model have equal ids.
C1_UniqueTabIds ==
    \A j, k \in 1..Len(tabs) : tabs[j].id = tabs[k].id => j = k

\* C2: at most one Client of the clients list has a given name.
C2_OneClientPerName ==
    \A j, k \in 1..Len(clients) : clients[j].name = clients[k].name => j = k

\* C3: tabs is never empty, its first tab is the Debug tab, and cur_tab is
\* an index into tabs.
C3_TabsValid ==
    /\ Len(tabs) >= 1
    /\ tabs[1].id = Debug
    /\ 0 <= cur_tab /\ cur_tab < Len(tabs)

\* next_tab has wrapped from the last tab to the Debug tab, a commit has
\* added a tab and logged, and text is typed into the Debug tab's input
C3_Wrapped ==
    /\ Len(tabs) >= 2 /\ cur_tab = 0
    /\ Len(tabs[1].lines) > 0 /\ tabs[1].input # ""

\* the texts of the writes of one kind, in the order written
Writes(s, src) ==
    LET w == SelectSeq(s.wire, LAMBDA x : x.src = src)
    IN  [k \in 1..Len(w) |-> w[k].text]

\* the lines read that the PING arm takes, and the others
PingLines(s) == SelectSeq(s.rd, LAMBDA l : StartsWith(l, "PING"))
NonPing(s) == SelectSeq(s.rd, LAMBDA l : ~StartsWith(l, "PING"))

\* the Event::Msg sent on ev_tx
MsgEvents(s) == SelectSeq(s.evs, LAMBDA e : e.tag = "Msg")

IsPrefix(a, b) == Len(a) <= Len(b) /\ a = SubSeq(b, 1, Len(a))

\* C4: in one session the debug entries and the Events follow the order of
\* the non-PING lines read; the Event of a line is sent after its debug
\* entry; at most the last line read is still to be sent, and none is when
\* the session is back at its select and can read the next line.
C4_LineOrder ==
    \A i \in Ids :
        LET s == Sess(i)
            nl == NonPing(s)
            ev == MsgEvents(s)
        IN  /\ IsPrefix(s.dbgs, nl)
            /\ Len(ev) <= Len(s.dbgs)
            /\ \A k \in 1..Len(ev) : ev[k] = [tag |-> "Msg", msg |-> parse_msg(nl[k])]
            /\ Len(s.dbgs) >= Len(nl) - 1
            /\ Len(ev) >= Len(nl) - 1
            /\ s.pc = "select" => s.dbgs = nl /\ Len(ev) = Len(nl)

\* a session has read two non-PING lines, the second had to wait for room
\* in a channel, and it is back at its select with both sent
C4_TwoLines ==
    \E i \in Ids :
        /\ Sess(i).pc = "select"
        /\ Len(NonPing(Sess(i))) >= 2
        /\ Len(MsgEvents(Sess(i))) >= 2

PongFor(line) == "PONG " \o Skip(line, 5) \o "\r\n"

\* C6: unless a transport call failed, a session has written one PONG for
\* every PING line it has read, with the text after `PING ` as its token,
\* has sent no debug entry and no Event for such a line, and the line has
\* not ended the session.
C6_PingPong ==
    \A i \in Ids :
        LET s == Sess(i)
            pl == PingLines(s)
        IN  s.why \notin {"io", "connect"} =>
                /\ Writes(s, "pong") = [k \in 1..Len(pl) |-> PongFor(pl[k])]
                /\ Len(s.dbgs) <= Len(NonPing(s))
                /\ Len(MsgEvents(s)) <= Len(NonPing(s))
                /\ s.why # "slice"

\* C7: once a session is back at its select, every line it has read is on
\* its debug stream.
C7_AllLinesDebugged ==
    \A i \in Ids : Sess(i).pc = "select" => Sess(i).dbgs = Sess(i).rd

\* the Disconnected events sent on ev_tx
Disconnects(s) == SelectSeq(s.evs, LAMBDA e : e.tag = "Disconnected")

\* C8 (state): a session sends Disconnected at most once, as its last
\* event, and exactly once when it ends on the end of the stream.
C8_OneDisconnected ==
    \A i \in Ids :
        LET s == Sess(i)
        IN  /\ Len(Disconnects(s)) <= 1
            /\ Len(Disconnects(s)) = 1 => s.eof /\ s.evs[Len(s.evs)].tag = "Disconnected"
            /\ s.eof /\ s.pc \in Ended => Len(Disconnects(s)) = 1 /\ s.pc = "done"

\* C8 (steps): once a session has observed the end of the stream nothing is
\* written to its transport and no Event follows Disconnected; once it has
\* ended, no command is accepted into its queue.
C8_NothingAfterEof ==
    \A i \in Ids :
        /\ Sess(i).eof => sessions'[i].wire = Sess(i).wire
        /\ Len(Disconnects(Sess(i))) = 1 => sessions'[i].evs = Sess(i).evs
        /\ Sess(i).eof /\ Sess(i).pc \in Ended =>
                /\ sessions'[i].pc = Sess(i).pc
                /\ sessions'[i].cmdq = Sess(i).cmdq
                /\ sessions'[i].sub = Sess(i).sub

\* C8: on the end of the stream a session sends exactly one Disconnected,
\* no Event after it, and ends; a command submitted afterwards is neither
\* written nor accepted.
C8_EndOfStream == [](C8_OneDisconnected) /\ [][C8_NothingAfterEof]_vars

\* the only session has ended on the end of the stream and the first command
\* the user committed for it, afterwards, was refused: Client::send panicked
C8_RefusedAfterEof ==
    /\ ui = "panic"
    /\ Len(sessions) = 1
    /\ Sess(1).eof /\ Sess(1).pc = "done"
    /\ Len(Disconnects(Sess(1))) = 1
    /\ Sess(1).sub = <<>>

\* C9: the first write of a session is NICK, the second is USER, no other
\* write is one of the two, and nothing is read, answered or written for
\* the handle before both are written.
C9_Handshake ==
    \A i \in Ids :
        LET s == Sess(i)
            w == s.wire
        IN  /\ Len(w) >= 1 => w[1] = [src |-> "hs", text |-> "NICK " \o config.nick \o "\r\n"]
            /\ Len(w) >= 2 =>
                    w[2] = [src |-> "hs",
                            text |-> "USER " \o config.user \o " 0 * :" \o config.real
                                     \o "\r\n"]
            /\ \A k \in 3..Len(w) : w[k].src # "hs"
            /\ s.rd # <<>> => Len(w) >= 2
            /\ s.pc \in {"select", "dbg_send", "ev_send", "done"} => Len(w) >= 2

\* a session has written NICK and USER and has written a command after them
\* without having read a line
C9_Shaken ==
    \E i \in Ids :
        /\ Len(Sess(i).wire) >= 3
        /\ Sess(i).rd = <<>>

\* C10: a step that dispatches an event or a debug entry of session i
\* changes the lines of no tab other than the Debug tab and the tabs whose
\* id carries the name of session i, and adds no tab.
C10_OwnTabsOnly ==
    [][\A i \in Ids :
          DispEvent(i) \/ DispDebug(i) =>
              /\ Len(tabs') = Len(tabs)
              /\ \A k \in 1..Len(tabs) :
                    /\ tabs'[k].id = tabs[k].id
                    /\ tabs'[k].lines # tabs[k].lines =>
                          \/ tabs[k].id = Debug
                          \/ tabs[k].id.serv = clients[i].name]_vars

\* two sessions with different names are connected, each has its tab, and
\* an event of the second has been appended to the tab of the second while
\* the tab of the first has no line
C10_TwoServers ==
    \E j, k \in 1..Len(tabs) :
        /\ tabs[j].id.kind = "Serv" /\ tabs[k].id.kind = "Serv"
        /\ j < k
        /\ tabs[j].id.serv # tabs[k].id.serv
        /\ tabs[j].lines = <<>>
        /\ tabs[k].lines # <<>>

\* the tab an Event::Msg is routed to, when its arm routes it to one
NoTarget == [kind |-> "None", serv |-> "", name |-> ""]

EventTarget(serv_name, msg) ==
    LET tag == msg.command.tag
        user == msg.prefix.kind = "User"
    IN  CASE tag = "PrivMsg" ->
                IF user THEN TargetTab(serv_name, msg.command.target)
                ELSE IF msg.prefix.kind = "Server" THEN Serv(serv_name)
                ELSE NoTarget
          [] tag \in {"Join", "Part"} ->
                IF user THEN Chan(serv_name, msg.command.chan) ELSE NoTarget
          [] tag = "Nick" -> IF user THEN Serv(serv_name) ELSE NoTarget
          [] tag \in ServMsgTags \cup {"RplMyInfo", "NameReply"} -> Serv(serv_name)
          [] OTHER -> NoTarget

\* the step dispatches the Event::Msg at the head of the queue of session i
DispMsg(i) == DispEvent(i) /\ Head(Sess(i).evq).tag = "Msg"

\* the step appends exactly n lines to the Debug tab and changes nothing
\* else of the tabs
DebugOnly(n) ==
    /\ Len(tabs') = Len(tabs)
    /\ \A k \in 2..Len(tabs) : tabs'[k] = tabs[k]
    /\ tabs'[1].id = tabs[1].id /\ tabs'[1].input = tabs[1].input
    /\ Len(tabs'[1].lines) = Len(tabs[1].lines) + n
    /\ SubSeq(tabs'[1].lines, 1, Len(tabs[1].lines)) = tabs[1].lines

\* C11: a step that dispatches an event whose target tab is not in the
\* model appends exactly one line to the Debug tab and changes the lines of
\* no other tab.
C11_RoutingMiss ==
    [][\A i \in Ids :
          LET id == EventTarget(clients[i].name, Head(Sess(i).evq).msg)
          IN  /\ DispMsg(i)
              /\ id # NoTarget
              /\ \A k \in 1..Len(tabs) : tabs[k].id # id
              => DebugOnly(1)]_vars

\* an event for a channel that has no tab was dispatched: the Debug tab
\* holds the line that says so
C11_Missed ==
    \E k \in 1..Len(tabs[1].lines) :
        StartsWith(tabs[1].lines[k], "[a] No tab found Chan(")

\* C12: a step that dispatches an Event::Msg appends at least one line to
\* some tab.
C12_AlwaysVisible ==
    [][\A i \in Ids :
          DispMsg(i) => \E k \in 1..Len(tabs) :
                            Len(tabs'[k].lines) > Len(tabs[k].lines)]_vars

\* the step is the commit of a /connect: a Client is added and the new tab
\* is its server tab
ConnectCommitted ==
    /\ Len(clients') = Len(clients) + 1
    /\ tabs'[Len(tabs')].id = Serv(clients'[Len(clients')].name)

\* the step is the commit of a /join that was sent on a session there is:
\* JOIN is submitted through its handle and the new tab is the channel tab
JoinCommitted ==
    \E i \in Ids :
        LET id == tabs'[Len(tabs')].id
        IN  /\ id.kind = "Chan" /\ id.serv = clients[i].name
            /\ sessions'[i].sub = Append(Sess(i).sub, client_join(id.name))
            /\ clients' = clients

\* C13: a step that dispatches an inbound event or a debug entry leaves the
\* number of tabs as it is; a step that changes the number of tabs adds one
\* tab and is the commit of a /connect or of a /join sent on a session.
C13_TabsOnlyByUser ==
    [][/\ \A i \in Ids : DispEvent(i) \/ DispDebug(i) => Len(tabs') = Len(tabs)
       /\ Len(tabs') # Len(tabs) =>
            /\ Len(tabs') = Len(tabs) + 1
            /\ ConnectCommitted \/ JoinCommitted]_vars

\* the user has joined a channel, which opened its tab, and afterwards an
\* event of a session was dispatched
C13_JoinedAndHeard ==
    /\ \E k \in 1..Len(tabs) : tabs[k].id.kind = "Chan"
    /\ \E i \in Ids :
        /\ \E k \in 1..Len(Sess(i).evs) : Sess(i).evs[k].tag = "Msg"
        /\ Sess(i).evq = <<>> /\ Sess(i).pc = "select" /\ Sess(i).disp = "run"

\* C14: in every step the ids of the tabs before the step are a prefix of
\* the ids of the tabs after it: no tab is removed, replaced or moved.
C14_TabsKept ==
    [][/\ Len(tabs') >= Len(tabs)
       /\ \A k \in 1..Len(tabs) : tabs'[k].id = tabs[k].id]_vars

\* the user has sent /quit on a session, the stream has ended, the
\* dispatcher has handled Disconnected, and the server tab is still there
C14_StillThere ==
    \E i \in Ids :
        /\ Sess(i).disp = "done"
        /\ Sess(i).sub # <<>> /\ StartsWith(Sess(i).sub[1], "QUIT")
        /\ \E k \in 1..Len(tabs) : tabs[k].id = Serv(clients[i].name)

\* the step submits a NICK command through the handle of session i
NickSubmitted(i) ==
    /\ Len(sessions'[i].sub) = Len(Sess(i).sub) + 1
    /\ StartsWith(sessions'[i].sub[Len(sessions'[i].sub)], "NICK ")

\* C15: in every step, for every handle: cur_nick changes only when the step
\* submits a NICK command through the handle; when a step submits one,
\* cur_nick is the nick of the command afterwards; the name never changes;
\* a step that dispatches an inbound event changes no handle.
C15_CurNick ==
    [][\A i \in Ids :
          /\ clients'[i].name = clients[i].name
          /\ clients'[i].cur_nick # clients[i].cur_nick => NickSubmitted(i)
          /\ NickSubmitted(i) =>
                sessions'[i].sub[Len(sessions'[i].sub)]
                    = client_nick(clients'[i].cur_nick)
          /\ DispEvent(i) \/ DispDebug(i) => clients' = clients]_vars

\* the user has changed the nick to n2 on a session, and afterwards an
\* inbound NICK that names n3 was dispatched to its server tab
C15_Renamed ==
    \E i \in Ids :
        /\ clients[i].cur_nick = "n2"
        /\ \E k \in 1..Len(tabs) :
            /\ tabs[k].id = Serv(clients[i].name)
            /\ \E j \in 1..Len(tabs[k].lines) :
                  tabs[k].lines[j] = "n is now known as n3"

\* the Event at the head of the queue of session i is an Error
ErrorAtHead(i) ==
    /\ Sess(i).evq # <<>>
    /\ Head(Sess(i).evq).tag = "Msg"
    /\ Head(Sess(i).evq).msg.command.tag = "Error"

\* C16: a step that dispatches an Error appends its text to the server tab
\* of the session and leaves the dispatcher and the session task running as
\* they were; a dispatcher stops only by dispatching Disconnected or, on the
\* transport error path, when the session task has ended and both channels
\* are drained.
C16_ErrorGoesOn ==
    [][\A i \in Ids :
          /\ ErrorAtHead(i) /\ DispEvent(i) =>
                LET pos == tab_position(UIState, Serv(clients[i].name))
                IN  /\ pos >= 0
                    /\ tabs'[pos + 1].lines
                         = Append(tabs[pos + 1].lines, Head(Sess(i).evq).msg.command.msg)
                    /\ sessions'[i].disp = "run"
                    /\ sessions'[i].pc = Sess(i).pc
          /\ Sess(i).disp = "run" /\ sessions'[i].disp # "run" =>
                \/ /\ DispEvent(i)
                   /\ Head(Sess(i).evq).tag = "Disconnected"
                   /\ sessions'[i].disp = "done"
                \/ /\ Sess(i).pc \in Ended
                   /\ Sess(i).evq = <<>> /\ Sess(i).dbgq = <<>>]_vars

\* an Error was dispatched to a server tab and the event that came after
\* it was dispatched to the same tab
C16_AfterError ==
    \E k \in 1..Len(tabs) :
        /\ tabs[k].id.kind = "Serv"
        /\ \E j \in 1..Len(tabs[k].lines) :
              tabs[k].lines[j] = "bye" /\ j < Len(tabs[k].lines)

\* the session whose handle the key loop used last: the one of the current
\* tab (0 on the Debug tab, or when no Client has the name)
CurrentSession == find_client_for_current_tab(UIState, clients)

\* C17: the key loop is never brought down by a session whose initial
\* connect failed: when the key loop has panicked in a Client::send, the
\* session of that handle is not one that ended in TcpStream::connect
\* before any command was accepted for it.
C17_ConnectFailureContained ==
    ui = "panic" /\ CurrentSession # 0 =>
        ~(/\ Sess(CurrentSession).why = "connect"
          /\ Sess(CurrentSession).sub = <<>>)

\* the tokens of a line after its prefix, its command code, and the raw
\* parameters of the wire line: every token after the code, the tokens from
\* the first `:`-marked one on rejoined into one trailing parameter
TokensOf(line) ==
    LET parts == split_whitespace(line)
    IN  IF parts # <<>> /\ StartsWith(parts[1], ":") THEN Tail(parts) ELSE parts

CodeOf(line) == IF TokensOf(line) = <<>> THEN "" ELSE Head(TokensOf(line))

RawParams(line) ==
    LET rest == IF TokensOf(line) = <<>> THEN <<>> ELSE Tail(TokensOf(line))
    IN  IF TrailingIndex(rest) # 0 THEN collect_params(rest) ELSE rest

\* the commands and numerics the codec recognizes, each with the number of
\* parameter positions its layout reads
Layout ==
    [c \in {"JOIN", "PART", "NICK", "ERROR"} |-> 1]
    @@ [c \in {"PRIVMSG", "NOTICE", "001", "002", "003", "005", "251", "252", "253",
               "254", "255", "265", "266", "372", "375", "376"} |-> 2]
    @@ [c \in {"366", "396"} |-> 3]
    @@ [c \in {"353"} |-> 4]
    @@ [c \in {"004"} |-> 6]

KnownCodes == DOMAIN Layout

\* the line matches a known command and lacks a position its layout reads
Malformed(line) ==
    /\ CodeOf(line) \in KnownCodes
    /\ Len(RawParams(line)) < Layout[CodeOf(line)]

\* C18: a session that has read a line which matches a known command and
\* lacks a parameter position of its layout has not ended in the decoder.
C18_MalformedSurvives ==
    \A i \in Ids :
        (\E k \in 1..Len(Sess(i).rd) : Malformed(Sess(i).rd[k]))
            => Sess(i).why # "parse"

\* C19: the Event of a line whose code is not a recognized one carries
\* Unknown(code) and the raw parameters of the line, and reading such a line
\* does not end the session in the decoder.
C19_UnknownKeepsParams ==
    \A i \in Ids :
        LET s == Sess(i)
            ev == MsgEvents(s)
        IN  /\ \A k \in 1..Len(ev) :
                 CodeOf(s.dbgs[k]) \notin KnownCodes =>
                    /\ ev[k].msg.command = [tag |-> "Unknown", code |-> CodeOf(s.dbgs[k])]
                    /\ ev[k].msg.params = RawParams(s.dbgs[k])
            /\ (\A k \in 1..Len(s.dbgs) : CodeOf(s.dbgs[k]) \notin KnownCodes)
                 => s.why # "parse"

\* no outbound queue holds more commands than the capacity of its channel
C20_QueueBounded == \A i \in Ids : Len(Sess(i).cmdq) <= ChanCap

\* committed on an empty input line with the tab of a session current,
\* these texts submit a command through the handle of that session
SubmittingTexts == {"/quit bye", "/nick n2"}

\* a step on a full queue of a live session leaves the submissions of its
\* handle as they are, and the commit of a command for that session panics
\* the key loop and changes no session and no handle
C20_FullIsFatal ==
    /\ \A i \in Ids :
          Len(Sess(i).cmdq) = ChanCap /\ Sess(i).pc \notin Ended =>
             /\ sessions'[i].sub = Sess(i).sub
             /\ Len(sessions'[i].cmdq) <= ChanCap
    /\ \A t \in SubmittingTexts :
          /\ Keys(Typed(t) \o <<"Enter">>)
          /\ current_tab(UIState).input = ""
          /\ CurrentSession # 0
          /\ Len(Sess(CurrentSession).cmdq) = ChanCap
          => ui' = "panic" /\ sessions' = sessions /\ clients' = clients

\* C20: a submission through a handle whose outbound queue is full panics
\* the caller; the command is not enqueued, and no queue ever holds more
\* than its capacity.
C20_SaturationFatal == [](C20_QueueBounded) /\ [][C20_FullIsFatal]_vars

\* the key loop has panicked on a submission to a live session whose queue
\* was full
C20_Saturated ==
    /\ ui = "panic"
    /\ CurrentSession # 0
    /\ Sess(CurrentSession).pc \notin Ended
    /\ Len(Sess(CurrentSession).cmdq) = ChanCap
    /\ Len(Sess(CurrentSession).sub) = ChanCap

\* C21 as claimed: a session that finds its event or debug channel full
\* fails; none is ever waiting for room in one.
C21_FullIsFatalToSession ==
    \A i \in Ids : Sess(i).pc \notin {"dbg_send", "ev_send"}

\* C21 as amended: the event and the debug channel hold at most their
\* capacity; a session that finds one full waits with the item in hand, and
\* a send is fatal to the session only when the dispatcher has dropped its
\* receiver.
C21_FullWaits ==
    \A i \in Ids :
        LET s == Sess(i)
        IN  /\ Len(s.evq) <= ChanCap /\ Len(s.dbgq) <= ChanCap
            /\ s.pc = "dbg_send" =>
                  s.hand = s.rd[Len(s.rd)] /\ s.dbgs = SubSeq(NonPing(s), 1, Len(s.dbgs))
                  /\ Len(s.dbgs) = Len(NonPing(s)) - 1
            /\ s.pc = "ev_send" =>
                  \/ s.eof /\ s.hand = [tag |-> "Disconnected"]
                  \/ ~s.eof /\ s.hand = [tag |-> "Msg", msg |-> parse_msg(s.rd[Len(s.rd)])]
            /\ s.why = "closed" => s.disp # "run"

\* a session has sent the debug entry of a line and waits for room in the
\* full event channel with the Event of the line in hand
C21_Waiting ==
    \E i \in Ids :
        /\ Sess(i).pc = "ev_send" /\ ~Sess(i).eof
        /\ Len(Sess(i).evq) = ChanCap
        /\ Sess(i).disp = "run"
        /\ Len(Sess(i).dbgs) = Len(NonPing(Sess(i)))

RECURSIVE NextTabs(_, _)
\* next_tab called n times
NextTabs(u, n) == IF n = 0 THEN u ELSE NextTabs(next_tab(u), n - 1)

\* C22: in every model the program reaches, with N tabs: N calls of
\* next_tab give the model back, one call changes cur_tab when N > 1 and
\* leaves it when N = 1, and a call changes nothing but cur_tab.
C22_TabCycle ==
    LET u == UIState
        N == Len(tabs)
    IN  /\ NextTabs(u, N) = u
        /\ N > 1 => next_tab(u).cur_tab # cur_tab
        /\ N = 1 => next_tab(u).cur_tab = cur_tab
        /\ next_tab(u).tabs = tabs

\* the Tab key has taken the model from the last of three tabs to the first
C22_Cycled == Len(tabs) = 3 /\ cur_tab = 0

\* the model after the user has typed text on the current tab
TypeText(u, text) == push_input(u, text)

\* the commit of what the current tab holds once the user has typed text
CommitTyped(text) == commit_input(TypeText(UIState, text), clients, sessions)

\* slash-commands that lack their required argument
ArgLess == {"/connect", "/join", "/connect ", "/join  "}

\* C23: whenever the current tab holds, or the user completes on it, a
\* /connect or /join with an empty or blank remainder, committing it adds
\* one line to the Debug tab and changes nothing else: no tab, cur_tab, no
\* Client, no session, no queue; the input line is taken.
C23_ArgErrorOnly ==
    \A t \in ArgLess \cup {""} :
        current_tab(TypeText(UIState, t)).input \in ArgLess =>
            LET r == CommitTyped(t)
            IN  /\ ~r.panic
                /\ r.clients = clients /\ r.sessions = sessions
                /\ r.u.cur_tab = cur_tab
                /\ Len(r.u.tabs) = Len(tabs)
                /\ Len(r.u.tabs[1].lines) = Len(tabs[1].lines) + 1
                /\ \A k \in 1..Len(tabs) :
                      /\ r.u.tabs[k].id = tabs[k].id
                      /\ k > 1 => r.u.tabs[k].lines = tabs[k].lines
                      /\ r.u.tabs[k].input = IF k = cur_tab + 1 THEN "" ELSE tabs[k].input

\* on the tab of a server the user has committed a /join with no channel:
\* the Debug tab ends with the diagnostic, and no channel tab was opened
C23_Diagnosed ==
    /\ cur_tab > 0
    /\ current_tab(UIState).input = ""
    /\ tabs[1].lines # <<>>
    /\ tabs[1].lines[Len(tabs[1].lines)] = "Command parse error: No channel name provided"
    /\ \A k \in 1..Len(tabs) : tabs[k].id.kind # "Chan"


(***************************************************************************)
(* C24.  The reference of the command interpreter, written from its        *)
(* statement: the command is the leading white-space-delimited token.      *)
(***************************************************************************)
RECURSIVE FirstSpace(_, _)
FirstSpace(s, i) ==
    IF i > Len(s) THEN 0
    ELSE IF IsSpace(CharAt(s, i)) THEN i ELSE FirstSpace(s, i + 1)

RefToken(line) ==
    LET ix == FirstSpace(line, 1)
    IN  IF ix = 0 THEN line ELSE SubSeq(line, 1, ix - 1)

RefRest(line) ==
    LET ix == FirstSpace(line, 1)
    IN  IF ix = 0 THEN "" ELSE Trim(Skip(line, ix))

RefInput(line) ==
    IF line = "" \/ CharAt(line, 1) # "/"
    THEN CmdOk("Msg", line, "")
    ELSE LET token == RefToken(line)
             rest  == RefRest(line)
         IN  CASE token = "/connect" ->
                    IF rest = "" THEN CmdErr("No server address provided")
                    ELSE CmdOk("Connect", rest, "")
               [] token = "/join" ->
                    IF rest = "" THEN CmdErr("No channel name provided")
                    ELSE CmdOk("Join", rest, "")
               [] token = "/quit" -> CmdOk("Quit", rest, "")
               [] OTHER -> CmdOk("Unsupported", rest, token)

\* the lines of spec.md's examples, their argument-less and padded forms, and
\* a line whose command is followed by a white space other than ' '
ParseTexts ==
    {"hello", "", " /join #c", "/", "/foo", "/foo a b",
     "/connect host", "/connect", "/connect  ", "/join #c", "/join",
     "/join  #c ", "/quit bye now", "/quit", "/join\t#c"}

\* C24: on every line typed into an empty input line (lines of /nick are
\* C25's), parse_input returns what the reference returns: Msg(line) for a
\* line without a leading `/`, else the leading white-space-delimited token
\* selects Connect, Join, Quit or Unsupported with the trimmed remainder.
C24_AgreesWithReference ==
    \A t \in ParseTexts :
        current_tab(UIState).input = "" =>
            parse_input(current_tab(TypeText(UIState, t)).input) = RefInput(t)


(***************************************************************************)
(* C25.  /nick.                                                            *)
(***************************************************************************)
\* lines of /nick and the argument each one carries
NickLines ==
    {<<"/nick n2", "n2">>, <<"/nick  n4 ", "n4">>, <<"/nick x y", "x y">>}

HandleOps ==
    {<<client_quit("bye now"), "QUIT :bye now\r\n">>,
     <<client_quit(""), "QUIT :\r\n">>,
     <<client_join("#c"), "JOIN #c\r\n">>,
     <<client_nick("n2"), "NICK n2\r\n">>,
     <<client_privmsg("#c", "hi all"), "PRIVMSG #c :hi all\r\n">>,
     <<client_privmsg("bob", "yo"), "PRIVMSG bob :yo\r\n">>}

\* sessions with string m appended to the outbound queue of session i
Enqueued(i, m) ==
    [sessions EXCEPT ![i].cmdq = Append(@, m), ![i].sub = Append(@, m)]

\* C26: on a handle whose queue accepts a command, each of quit, join, nick
\* and privmsg appends exactly one string to the outbound queue of its
\* session, the template of the operation followed by CR LF, and the commits
\* of /quit, /join, /nick and of a plain message on a channel tab enqueue
\* exactly that string.
C26_OneStringPerOperation ==
    /\ \A i \in Ids : CanSend(Sess(i)) =>
          \A op \in HandleOps : client_send(sessions, i, op[1]) = Enqueued(i, op[2])
    /\ LET i == CurrentSession
           id == current_tab(UIState).id
       IN  current_tab(UIState).input = "" /\ i # 0 /\ CanSend(Sess(i)) =>
             /\ CommitTyped("/quit bye now").sessions = Enqueued(i, "QUIT :bye now\r\n")
             /\ CommitTyped("/nick n2").sessions = Enqueued(i, "NICK n2\r\n")
             /\ id.kind = "Serv" =>
                   CommitTyped("/join #d").sessions = Enqueued(i, "JOIN #d\r\n")
             /\ id.kind = "Chan" /\ id.name = "#c" =>
                   CommitTyped("hi all").sessions = Enqueued(i, "PRIVMSG #c :hi all\r\n")

\* a session was told to join #c and then to say hi there: the two strings
\* are the commands submitted to it, the second still in its queue
C26_JoinedAndSpoke ==
    \E i \in Ids :
        /\ Sess(i).sub = <<"JOIN #c\r\n", "PRIVMSG #c :hi\r\n">>
        /\ Sess(i).cmdq = <<"PRIVMSG #c :hi\r\n">>


(***************************************************************************)
(* C27.  /quit.                                                            *)
(***************************************************************************)
\* lines of /quit and the command each one submits
QuitLines == {<<"/quit bye now", "QUIT :bye now\r\n">>, <<"/quit", "QUIT :\r\n">>}

\* C27: /quit committed on an empty input line of a tab whose session S has
\* a handle that can take a command appends `QUIT :<msg>` to the commands
\* submitted to S and changes nothing else: the list of handles, the tabs
\* and the current tab are as before, and so are the session task and the
\* dispatcher of S and every other session.
C27_QuitOnlySubmits ==
    LET i == CurrentSession
    IN  current_tab(UIState).input = "" /\ i # 0 /\ CanSend(Sess(i)) =>
          \A l \in QuitLines :
              LET r == CommitTyped(l[1])
              IN  /\ ~r.panic
                  /\ r.clients = clients
                  /\ r.u = UIState
                  /\ r.sessions = Enqueued(i, l[2])
                  /\ r.sessions[i].pc = Sess(i).pc
                  /\ r.sessions[i].disp = Sess(i).disp

\* /quit bye was committed on the server tab of a session and written to the
\* server: the handle is there, the tab is current, the session task waits
\* in its select and the dispatcher runs
C27_QuitAndRunning ==
    \E i \in Ids :
        /\ Sess(i).sub = <<"QUIT :bye\r\n">>
        /\ Sess(i).cmdq = <<>>
        /\ Sess(i).pc = "select"
        /\ Sess(i).disp = "run"
        /\ CurrentSession = i
        /\ current_tab(UIState).id = Serv(clients[i].name)


(***************************************************************************)
(* C28.  A plain message on a channel tab.  The user who joins a channel a *)
(* second time from the server tab gets a second tab of the same id (C1);  *)
(* the bursts below are the keys of such a user.                           *)
(***************************************************************************)
RejoinBursts ==
    {Typed("/connect a") \o <<"Enter">> \o Typed("/join #c") \o <<"Enter">>,
     <<"Tab", "Tab">> \o Typed("/join #c") \o <<"Enter", "Tab">>,
     Typed("hi") \o <<"Enter">>}

NextRejoin ==
    \/ \E burst \in RejoinBursts : Keys(burst)
    \/ \E i \in Ids, fail \in {"connect", "nick", "user", "none"} : SessStart(i, fail)
    \/ \E i \in Ids, line \in InboundLines, ok \in BOOLEAN : SessReadLine(i, line, ok)
    \/ \E i \in Ids : SessDbgSend(i)
    \/ \E i \in Ids : SessEvSend(i)
    \/ \E i \in Ids : SessReadEof(i)
    \/ \E i \in Ids : SessReadErr(i)
    \/ \E i \in Ids, ok \in BOOLEAN : SessCmd(i, ok)
    \/ \E i \in Ids : DispEvent(i)
    \/ \E i \in Ids : DispDebug(i)
    \/ \E i \in Ids : DispClosed(i)

SpecRejoin == Init /\ [][NextRejoin]_vars

\* C28: a plain message committed on an empty input line of a channel or
\* query tab whose session has a handle that can take a command submits
\* exactly one `PRIVMSG <target> :<msg>` to that session and appends exactly
\* one line, `<cur_nick> msg` with the nick the handle holds, to the tab it
\* was typed on; the other tabs of channels, users and servers keep their
\* lines and the handles stay as they are.
C28_EchoOnSameTab ==
    LET id == current_tab(UIState).id
        i == CurrentSession
    IN  /\ id.kind \in {"Chan", "Query"}
        /\ current_tab(UIState).input = ""
        /\ i # 0 /\ CanSend(Sess(i))
        => LET r == CommitTyped("yo")
           IN  /\ ~r.panic
               /\ r.clients = clients
               /\ r.sessions = Enqueued(i, "PRIVMSG " \o id.name \o " :yo\r\n")
               /\ r.u.cur_tab = cur_tab
               /\ Len(r.u.tabs) = Len(tabs)
               /\ \A k \in 2..Len(tabs) :
                     r.u.tabs[k].lines =
                        IF k = cur_tab + 1
                        THEN Append(tabs[k].lines, "<" \o clients[i].cur_nick \o "> yo")
                        ELSE tabs[k].lines


(***************************************************************************)
(* C29.  The reference of parse_prefix, written from its statement.        *)
(***************************************************************************)
\* position of the first character c of s at or after position i, 0 if none
RECURSIVE FirstAt(_, _, _)
FirstAt(s, c, i) ==
    IF i > Len(s) THEN 0
    ELSE IF CharAt(s, i) = c THEN i ELSE FirstAt(s, c, i + 1)

\* the token holds both `!` and `@`, in either order
BothMarks(t) == FirstAt(t, "!", 1) # 0 /\ FirstAt(t, "@", 1) # 0

\* the `@` that follows the first `!`, 0 if none does
FollowingAt(t) == FirstAt(t, "@", FirstAt(t, "!", 1) + 1)

\* prefix tokens: a server name, the user form, tokens with one mark only,
\* with marks repeated, and with the `@` before the `!`
PrefixTokens ==
    {"irc.example.net", "", "n!u@h", "n!u", "n@h", "!@", "n!!u@h", "n!u@h@k",
     "a@b!c@d", "x@y!z"}

\* C29: for every prefix token of a line a session task decodes, parse_prefix
\* does not fail; on a token with both `!` and `@` it returns User with the
\* nick before the first `!`, the user between that `!` and the first `@`
\* that follows and the host after it; on every other token Server(token).
C29_PrefixNeverFails ==
    \A i \in Ids : Sess(i).pc = "select" =>
        \A t \in PrefixTokens :
            LET p == parse_prefix(t)
                b == FirstAt(t, "!", 1)
                a == FollowingAt(t)
            IN  /\ ~p.panic
                /\ ~parse_msg(":" \o t \o " FOO").panic
                /\ parse_msg(":" \o t \o " FOO").prefix = p
                /\ ~BothMarks(t) => p = [panic |-> FALSE, kind |-> "Server", name |-> t]
                /\ BothMarks(t) =>
                      /\ p.kind = "User"
                      /\ p.nick = SubSeq(t, 1, b - 1)
                      /\ a # 0 => /\ p.user = SubSeq(t, b + 1, a - 1)
                                  /\ p.host = SubSeq(t, a + 1, Len(t))


(***************************************************************************)
(* C30.  PRIVMSG, from the line to the tab.                                *)
(***************************************************************************)
\* PRIVMSG lines with the kind of target, the destination, the text and the
\* nick of the sender each one carries
PrivLines ==
    {<<":n!u@h PRIVMSG #c :hi", "Chan", "#c", "hi", "n">>,
     <<":m!v@w PRIVMSG #c ::) ok", "Chan", "#c", ":) ok", "m">>,
     <<":n!u@h PRIVMSG bob :hello  there  you", "User", "bob", "hello there you", "n">>,
     <<":n!u@h PRIVMSG c#d :x", "User", "c#d", "x", "n">>,
     <<":irc PRIVMSG #c :", "Chan", "#c", "", "">>,
     <<"PRIVMSG me :yo", "User", "me", "yo", "">>}

\* C30: a PRIVMSG line decodes to PrivMsg with the target Chan(dest) when
\* the destination starts with `#` and User(dest) otherwise, and with the
\* trailing parameter without its `:` as the text; a running dispatcher that
\* takes the event of a line sent by a user appends `<nick> text` to the
\* first tab whose id is that target on its session, when there is one (C11
\* has the other case), and changes no other tab.
C30_PrivMsgToTab ==
    \A i \in Ids : Sess(i).disp = "run" =>
        \A l \in PrivLines :
            LET m == parse_msg(l[1])
                id == [kind |-> IF l[2] = "Chan" THEN "Chan" ELSE "Query",
                       serv |-> clients[i].name, name |-> l[3]]
                u == handle_event(UIState, clients[i].name, [tag |-> "Msg", msg |-> m])
                first(k) == tabs[k].id = id /\ \A j \in 1..(k - 1) : tabs[j].id # id
            IN  /\ ~m.panic
                /\ m.command = [tag |-> "PrivMsg",
                                target |-> [kind |-> l[2], name |-> l[3]],
                                msg |-> l[4]]
                /\ l[5] # "" =>
                      /\ m.prefix.kind = "User" /\ m.prefix.nick = l[5]
                      /\ u.cur_tab = cur_tab
                      /\ Len(u.tabs) = Len(tabs)
                      /\ \A k \in 1..Len(tabs) :
                            IF first(k)
                            THEN u.tabs[k] =
                                   [tabs[k] EXCEPT
                                      !.lines = Append(@, "<" \o l[5] \o "> " \o l[4])]
                            ELSE k > 1 => u.tabs[k] = tabs[k]
                      /\ (\E k \in 1..Len(tabs) : first(k)) => u.tabs[1] = tabs[1]

\* the user joined #c on a and the dispatcher of a has shown what n said there
C30_Heard ==
    \E k \in 1..Len(tabs) :
        /\ tabs[k].id = Chan("a", "#c")
        /\ tabs[k].lines = <<"<n> hi">>


(***************************************************************************)
(* C31.  PART.                                                             *)
(***************************************************************************)
\* PART lines with the channel and the leave-message each one carries
PartLines ==
    {<<":n!u@h PART :#c", "#c", "">>,
     <<":n!u@h PART #c", "#c", "">>,
     <<":n!u@h PART #c :bye now", "#c", "bye now">>,
     <<":n!u@h PART #c ::(", "#c", ":(">>,
     <<"PART #c :\"getting out of here\"", "#c", "\"getting out of here\"">>}

\* C31: every PART line a session task decodes gives Part: with the channel
\* alone, that channel and an empty leave-message; with a channel and a
\* trailing segment, the channel and the segment without its `:`.
C31_PartDecoded ==
    \A i \in Ids : Sess(i).pc = "select" =>
        \A l \in PartLines :
            LET m == parse_msg(l[1])
            IN  /\ ~m.panic
                /\ m.command = [tag |-> "Part", chan |-> l[2], msg |-> l[3]]


(***************************************************************************)
(* C32.  The parameter list of a line.                                     *)
(***************************************************************************)
\* lines of an unrecognized code, which carries the parameter list as
\* parse_msg built it, and the list each one is to give
ParamLines ==
    {<<"FOO", <<>>>>,
     <<"FOO :x", <<":x">>>>,
     <<":irc FOO a b :c d  e", <<"a", "b", ":c d e">>>>,
     <<"FOO a :b :c", <<"a", ":b :c">>>>,
     <<":irc FOO a b", <<"a", "b">>>>}

\* C32: for every line a session task decodes, the tokens after the command
\* code are its parameters: those before the first token that starts with
\* `:` one by one and those from it on joined with single spaces into the
\* last one; without such a token, every token is a parameter of its own.
C32_ParamList ==
    \A i \in Ids : Sess(i).pc = "select" =>
        \A l \in ParamLines :
            /\ collect_params(Tail(TokensOf(l[1]))) = l[2]
            /\ parse_msg(l[1]).params = l[2]


(***************************************************************************)
(* C33.  The text of 265, 266 and 372.                                     *)
(***************************************************************************)
\* lines of the three numerics, the tag of each and the text after its `:`
TextLines ==
    {<<":irc 265 me :Current local users: 1", "RplLocalUsers", "Current local users: 1">>,
     <<":irc 266 me :Current global users: 4", "RplGlobalUsers", "Current global users: 4">>,
     <<":irc 372 me :Thank you", "Motd", "Thank you">>,
     <<":irc 265 me :users: 1704  Max: 4101", "RplLocalUsers", "users: 1704  Max: 4101">>,
     <<":irc 266 me :users: 4977  Max: 10281", "RplGlobalUsers", "users: 4977  Max: 10281">>,
     <<":irc 372 me :  Thank you", "Motd", "  Thank you">>}

\* C33: for every 265, 266 or 372 line a session task decodes, the text of
\* the result is the text after the `:` of the trailing parameter, character
\* for character.
C33_TextVerbatim ==
    \A i \in Ids : Sess(i).pc = "select" =>
        \A l \in TextLines :
            LET m == parse_msg(l[1])
            IN  /\ ~m.panic
                /\ m.command = [tag |-> l[2], msg |-> l[3]]


(***************************************************************************)
(* C34.  The input lines after a commit.                                   *)
(***************************************************************************)
\* texts whose commit takes each arm of commit_input
CommitTexts ==
    {"", "hi", "/join", "/connect", "/foo a b", "/connect b", "/join #d",
     "/quit bye", "/nick n5"}

\* C34: whatever text completes the input line of the current tab and
\* whatever the commit does with it (parse error, Unsupported, Connect, Join,
\* Quit, Nick, Msg, a failed send included), after commit_input the input
\* line of the tab that was current is empty and the input line of every
\* other tab is what it was.
C34_InputTaken ==
    \A t \in CommitTexts :
        LET r == CommitTyped(t)
        IN  /\ Len(r.u.tabs) >= Len(tabs)
            /\ \A k \in 1..Len(tabs) :
                  r.u.tabs[k].input = IF k = cur_tab + 1 THEN "" ELSE tabs[k].input

\* a server tab holds a line the user has not committed while the Debug tab
\* is current, after the commit that opened the server tab
C34_PendingElsewhere ==
    /\ cur_tab = 0
    /\ Len(tabs) = 2
    /\ tabs[2].input = "/join"
    /\ tabs[1].input = ""
    /\ tabs[1].lines # <<>>
    /\ CommitTyped("/connect b").u.tabs[2].input = "/join"


(***************************************************************************)
(* C35.  The debug stream reaches the Debug tab.  Only DispDebug takes a   *)
(* line from the debug stream, and only while the dispatcher runs; a       *)
(* dispatcher that has stopped does not start again.  A line in the queue  *)
(* of a stopped dispatcher is therefore a line that is never appended.     *)
(***************************************************************************)
\* C35: every line a session has sent on its debug stream is appended to the
\* Debug tab by its dispatcher sooner or later: no dispatcher has stopped
\* with lines still queued on the debug stream of its session, whichever of
\* the two streams it served first.
C35_DebugLinesDelivered ==
    \A i \in Ids : Sess(i).disp # "run" => Sess(i).dbgq = <<>>


(***************************************************************************)
(* C36.  The dispatcher of a session that ended on a read error.           *)
(***************************************************************************)
\* the session task of i left its loop in the Err arm of next_line: it ended
\* without a panic and without sending Disconnected
ReadErrorEnded(i) == Sess(i).pc = "done" /\ ~Sess(i).eof

\* C36: the dispatcher of a session that ended on a transport read error
\* does not abort: it never selects with both of its receive branches
\* disabled.
C36_DispatcherEndsCleanly ==
    \A i \in Ids : ReadErrorEnded(i) => Sess(i).disp # "panicked"


(***************************************************************************)
(* C37.  The order of a tab's history.  The events of a session wait in    *)
(* its queue in the order of its lines (C4); what is left to show is that  *)
(* the dispatcher takes them in that order and that a line it appends      *)
(* comes after every line the tab holds.                                   *)
(***************************************************************************)
\* the queue of session i holds the last events sent, in the order sent
QueueIsTail(ss, i) ==
    LET n == Len(ss[i].evs)
        q == Len(ss[i].evq)
    IN  q <= n /\ ss[i].evq = SubSeq(ss[i].evs, n - q + 1, n)

C38_JoinOnServerTabOnly ==
    current_tab(UIState).input = "" =>
        LET id == current_tab(UIState).id
            i == CurrentSession
            r == CommitTyped("/join #d")
            n == Len(tabs)
        IN  /\ r.clients = clients
            /\ id.kind = "Serv" => i # 0 /\ clients[i].name = id.serv
            /\ id.kind = "Serv" /\ CanSend(Sess(i)) =>
                  /\ ~r.panic
                  /\ r.sessions = Enqueued(i, "JOIN #d\r\n")
                  /\ Len(r.u.tabs) = n + 1
                  /\ r.u.tabs[n + 1] = NewTab(Chan(id.serv, "#d"))
                  /\ r.u.tabs[r.u.cur_tab + 1].id = Chan(id.serv, "#d")
                  /\ \A k \in 2..n : r.u.tabs[k] = tabs[k]
            /\ id.kind # "Serv" =>
                  /\ ~r.panic
                  /\ r.sessions = sessions
                  /\ r.u.cur_tab = cur_tab
                  /\ Len(r.u.tabs) = n
                  /\ \A k \in 2..n : r.u.tabs[k] = tabs[k]
                  /\ Len(r.u.tabs[1].lines) = Len(tabs[1].lines) + 1
                  /\ IsPrefix(tabs[1].lines, r.u.tabs[1].lines)

\* the user tried /join on the Debug tab, which only left a diagnostic, then
\* connected to a and joined #c from its server tab
C38_RefusedThenJoined ==
    /\ Len(tabs) = 3
    /\ tabs[3].id = Chan("a", "#c")
    /\ cur_tab = 2
    /\ tabs[1].lines # <<>>
    /\ tabs[1].lines[1] = "Join command on debug tab"
    /\ Sess(1).sub = <<"JOIN #c\r\n">>

====
